---- MODULE Spec2Model ----
\* Versioned requirement store of the requirements-management application:
\* the relational rows (requirement, requirement_version, history), the request
\* handlers that write them, and the interleaving of concurrent requests.
\*
\* Persistence is one SQLite file (src/app/__init__.py:17).  A SELECT opens no
\* transaction, the first INSERT/UPDATE/DELETE of a request takes the single
\* write lock and holds it until commit or rollback.  So a request is: reads
\* that other requests' commits can interleave with, followed by one atomic
\* write-and-commit in which the request sees the committed rows plus its own.
EXTENDS Integers, Sequences, FiniteSets, TLC

VARIABLES db, pc, local, nreq, response, fn_in, fn_out

vars == <<db, pc, local, nreq, response, fn_in, fn_out>>

-----------------------------------------------------------------------------
\* Bounds of the exploration.

\* Requests begun in one behaviour.
MaxRequests == 2

Procs == {1, 2}

-----------------------------------------------------------------------------
\* Users and projects.  User 1 owns project 1 and shares it with user 2;
\* user 3 owns project 2 and has no access to project 1.

Users == {1, 2, 3}

Project == {[id |-> 1, user_id |-> 1], [id |-> 2, user_id |-> 3]}

ProjectIds == {p.id : p \in Project}

ProjectRow(project_id) == CHOOSE p \in Project : p.id = project_id

\* Project.get_custom_columns: every project has the custom column "Priority".
get_custom_columns(project_id) == <<"Priority">>

\* Project.is_accessible_by on the rows d.
is_accessible_by(d, project_id, user) ==
    \/ ProjectRow(project_id).user_id = user
    \/ user \in d.shared_with[project_id]

\* check_project_access: TRUE where the handler goes on, FALSE where it aborts (403).
check_project_access(d, project_id, user) ==
    ~(ProjectRow(project_id).user_id # user /\ user \notin d.shared_with[project_id])

-----------------------------------------------------------------------------
\* Titles are sequences of characters, so that normalize_key is computed.

WhiteSpace == {" ", "\t"}

lower(c) == CASE c = "A" -> "a"
              [] c = "B" -> "b"
              [] c = "Login" -> "login"
              [] c = "Feature" -> "feature"
              [] c = "Priority" -> "priority"
              [] c = "Risk" -> "risk"
              [] OTHER -> c

RECURSIVE lstrip(_)
lstrip(s) == IF s # <<>> /\ Head(s) \in WhiteSpace THEN lstrip(Tail(s)) ELSE s

RECURSIVE rstrip(_)
rstrip(s) ==
    IF s # <<>> /\ s[Len(s)] \in WhiteSpace
    THEN rstrip(SubSeq(s, 1, Len(s) - 1))
    ELSE s

strip(s) == rstrip(lstrip(s))

\* re.sub(r"\s+", " ", s): every run of whitespace becomes one space.
RECURSIVE collapse(_)
collapse(s) ==
    IF s = <<>> THEN <<>>
    ELSE IF Head(s) \in WhiteSpace
         THEN <<" ">> \o collapse(lstrip(s))
         ELSE <<Head(s)>> \o collapse(Tail(s))

\* normalize_key without the re.sub line.
normalize_key_uncollapsed(title) ==
    IF title = <<>> THEN <<>>
    ELSE [i \in 1..Len(strip(title)) |-> lower(strip(title)[i])]

normalize_key(title) ==
    IF title = <<>> THEN <<>>
    ELSE collapse([i \in 1..Len(strip(title)) |-> lower(strip(title)[i])])

Letters == <<"A", "B", "C", "D", "E", "F", "G", "H", "I", "J", "K", "L", "M",
             "N", "O", "P", "Q", "R", "S", "T", "U", "V", "W", "X", "Y", "Z">>

\* chr(ord('A') + n - 1); past Z the code yields other code points.
version_label(n) ==
    IF n <= 0 THEN ""
    ELSE IF n <= Len(Letters) THEN Letters[n] ELSE "?"

-----------------------------------------------------------------------------
\* Rows.

SetMax(S) == CHOOSE x \in S : \A y \in S : y <= x

SetMin(S) == CHOOSE x \in S : \A y \in S : x <= y

\* INTEGER PRIMARY KEY: the next rowid is the largest one plus one.
NextId(rows) == IF rows = {} THEN 1 ELSE SetMax({r.id : r \in rows}) + 1

\* The tables: requirement, requirement_version, requirement_version_history,
\* requirement_comment and notification rows and the project_user_association
\* pairs (as project id -> user ids), and of the project rows the one column
\* that changes, custom_columns (as project id -> list of names; a name is a
\* sequence of characters and words, as a title is).
EmptyDb == [requirement |-> {}, requirement_version |-> {}, history |-> {},
            comment |-> {}, notification |-> {},
            shared_with |-> [p \in ProjectIds |-> IF p = 1 THEN {2} ELSE {}],
            custom_columns |-> [p \in ProjectIds |-> << <<"Priority">> >>]]

RequirementIds(d) == {r.id : r \in d.requirement}

VersionIds(d) == {v.id : v \in d.requirement_version}

RequirementRow(d, req_id) == CHOOSE r \in d.requirement : r.id = req_id

VersionRow(d, version_id) == CHOOSE v \in d.requirement_version : v.id = version_id

\* Requirement.versions, as the set of its rows.
versions(d, req_id) == {v \in d.requirement_version : v.requirement_id = req_id}

VersionIndexes(d, req_id) == {v.version_index : v \in versions(d, req_id)}

\* Requirement.get_latest_version: the row of the largest version_index
\* (0 stands for None).
get_latest_version(d, req_id) ==
    IF versions(d, req_id) = {} THEN 0
    ELSE (CHOOSE v \in versions(d, req_id) :
            \A w \in versions(d, req_id) : w.version_index <= v.version_index).id

\* next_version_info on the version_index values of req.versions as loaded.
next_version_info(indexes) ==
    IF indexes = {} THEN 1 ELSE SetMax(indexes) + 1

\* A can_be_edited_by that lets only the blocker through.
can_be_edited_by_blocker(is_blocked, blocked_by_id, owner_id, user) ==
    IF ~is_blocked THEN TRUE ELSE blocked_by_id = user

\* RequirementVersion.can_be_edited_by.
can_be_edited_by(is_blocked, blocked_by_id, owner_id, user) ==
    IF ~is_blocked THEN TRUE
    ELSE blocked_by_id = user \/ owner_id = user

\* A requirement_version table without the unique constraint.
uq_req_version_absent(d, req_id, version_index) == TRUE

\* uq_req_version: no second row with this (requirement_id, version_index).
uq_req_version(d, req_id, version_index) ==
    version_index \notin VersionIndexes(d, req_id)

-----------------------------------------------------------------------------
\* Inputs of the requests.

\* The titles "A", "a" and "B".
A_ == <<"A">>

a_ == <<"a">>

B_ == <<"B">>

\* The other fields of a candidate travel together: description, category,
\* status and the value of the custom column.
Payload1 == [description |-> "d1", category |-> "", status |-> "", Priority |-> "High"]

Payload2 == [description |-> "d2", category |-> "c", status |-> "Fertig", Priority |-> ""]

\* A candidate of an ingestion run: an AI item or an Excel row.  id is the id
\* hint of an AI item; 0: no id, or one that is no number.
Candidate(id, title, payload) ==
    [id |-> id, title |-> title, description |-> payload.description,
     category |-> payload.category, status |-> payload.status,
     Priority |-> payload.Priority]

Statuses == {"Offen", "In Arbeit", "Fertig"}

\* _validate_and_normalize_requirements with a columns list: each item keeps
\* the columns asked for, stripped; "id" is a column in improve_only mode only;
\* an item with no value at all is dropped.
AiColumnsItem(item, with_id) ==
    [item EXCEPT !.id = IF with_id THEN item.id ELSE 0, !.title = strip(item.title)]

HasRequiredData(item) ==
    \/ item.id # 0
    \/ item.title # <<>>
    \/ item.description # ""
    \/ item.category # ""
    \/ item.status # ""
    \/ item.Priority # ""

RECURSIVE validate_and_normalize_requirements(_, _)
validate_and_normalize_requirements(items, with_id) ==
    IF items = <<>> THEN <<>>
    ELSE LET item == AiColumnsItem(Head(items), with_id)
             rest == validate_and_normalize_requirements(Tail(items), with_id)
         IN IF HasRequiredData(item) THEN <<item>> \o rest ELSE rest

-----------------------------------------------------------------------------
\* Row constructors and the writes every version-creating handler makes.

\* A custom_data JSON object: the keys present and their values.
CustomData(keys, priority, quantifiable) ==
    [k \in keys |-> IF k = "Priority" THEN priority ELSE quantifiable]

RequirementVersion(d, req_id, version_index, label, fields, custom_data, user) ==
    [id |-> NextId(d.requirement_version),
     requirement_id |-> req_id,
     version_index |-> version_index,
     version_label |-> label,
     title |-> fields.title,
     description |-> fields.description,
     category |-> fields.category,
     status |-> fields.status,
     custom_data |-> custom_data,
     created_by_id |-> user,
     last_modified_by_id |-> 0,
     is_blocked |-> FALSE,
     blocked_by_id |-> 0,
     blocked_at |-> 0]

RequirementVersionHistory(d, version_id, user, change_type, changes) ==
    [id |-> NextId(d.history),
     version_id |-> version_id,
     changed_by_id |-> user,
     change_type |-> change_type,
     changes |-> changes]

Requirement(d, project_id, key) ==
    [id |-> NextId(d.requirement), project_id |-> project_id, key |-> key,
     is_deleted |-> FALSE]

\* The outcome of the writes of a request: the rows as they would be committed,
\* or ok = FALSE after an IntegrityError (the request rolls back).
Ok(d) == [ok |-> TRUE, d |-> d]

Failed(d) == [ok |-> FALSE, d |-> d]

\* db.session.add(new_version); flush; add(history_entry 'created').
\* The INSERT fails on uq_req_version.
AddVersion(d, req_id, version_index, label, fields, custom_data, user) ==
    IF ~uq_req_version(d, req_id, version_index) THEN Failed(d)
    ELSE LET v == RequirementVersion(d, req_id, version_index, label, fields,
                                     custom_data, user)
         IN Ok([d EXCEPT
                  !.requirement_version = @ \cup {v},
                  !.history = @ \cup {RequirementVersionHistory(
                                         d, v.id, user, "created",
                                         {"action", "version"})}])

\* A lookup by key that leaves out the soft-deleted requirements.
FirstByKeyActive(d, project_id, key) ==
    LET hits == {r.id : r \in {x \in d.requirement :
                                 /\ x.project_id = project_id
                                 /\ x.key = key
                                 /\ ~x.is_deleted}}
    IN IF hits = {} THEN 0 ELSE SetMin(hits)

\* Requirement.query.filter_by(project_id=..., key=...).first(): the row of the
\* smallest id, 0 for None.
FirstByKey(d, project_id, key) ==
    LET hits == {r.id : r \in {x \in d.requirement :
                                 x.project_id = project_id /\ x.key = key}}
    IN IF hits = {} THEN 0 ELSE SetMin(hits)

Idle == [op |-> "none"]

\* What the last step answered: "ok" (the handler returned from its success
\* branch), "forbidden" (abort(403)), "invalid" (a 400, or the flash of a
\* validation message), "error" (an exception the handler reports or does not
\* catch); "none" at the start and after a step that is not the end of a
\* request.
Responses == {"none", "ok", "forbidden", "invalid", "error"}

\* The request commits d and answers r.
Reply(d, r) == db' = d /\ response' = r

\* The request of a process that is idle is answered r before it reads or
\* writes anything.
Refuse(r) == response' = r /\ UNCHANGED <<db, pc, local, fn_in, fn_out>>

\* How the notifications after a commit end: all committed ("sent"); an
\* exception before their commit ("raised"), which the handler swallows; an
\* exception in the flush of their commit ("flush_failed"), which the handler
\* swallows without db.session.rollback(), so that the session stays inactive
\* and the next attribute load of the handler raises.
\* A request that ends before its notification helper is called has the
\* outcome "sent" by convention.
NotifyOutcomes == {"sent", "raised", "flush_failed"}

-----------------------------------------------------------------------------
\* Notifications (utils/notifications.py).

\* A set of user ids as a list.
RECURSIVE SeqOf(_)
SeqOf(S) == IF S = {} THEN <<>> ELSE <<SetMin(S)>> \o SeqOf(S \ {SetMin(S)})

\* [project.user] + list(project.shared_with): the owner is listed again when
\* the association table has a row for the owner.
project_users(d, project_id) ==
    <<ProjectRow(project_id).user_id>> \o SeqOf(d.shared_with[project_id])

Notification(d, user_id, notification_type, related_type, related_id, actor) ==
    [id |-> NextId(d.notification), user_id |-> user_id,
     notification_type |-> notification_type, related_type |-> related_type,
     related_id |-> related_id, actor_id |-> actor, is_read |-> FALSE]

create_notification(d, user_id, notification_type, related_type, related_id, actor) ==
    [d EXCEPT !.notification = @ \cup
        {Notification(d, user_id, notification_type, related_type, related_id, actor)}]

\* The loop over a list of users: one notification for each entry that is not
\* the actor and not in skip.
RECURSIVE NotifyUsers(_, _, _, _, _, _, _)
NotifyUsers(d, users, skip, notification_type, related_type, related_id, actor) ==
    IF users = <<>> THEN d
    ELSE NotifyUsers(
             IF Head(users) # actor /\ Head(users) \notin skip
             THEN create_notification(d, Head(users), notification_type,
                                      related_type, related_id, actor)
             ELSE d,
             Tail(users), skip, notification_type, related_type, related_id, actor)

notify_requirement_updated(d, version_id, project_id, actor) ==
    NotifyUsers(d, project_users(d, project_id), {}, "requirement_updated",
                "requirement_version", version_id, actor)

notify_requirement_created(d, version_id, project_id, actor) ==
    NotifyUsers(d, project_users(d, project_id), {}, "requirement_created",
                "requirement_version", version_id, actor)

-----------------------------------------------------------------------------
\* Ingestion by AI generation (agent.py generate).

\* The loop skips an item without a title.
RECURSIVE SkipUntitled(_)
SkipUntitled(items) ==
    IF items = <<>> THEN <<>>
    ELSE IF strip(Head(items).title) = <<>>
         THEN SkipUntitled(Tail(items))
         ELSE <<Head(items)>> \o SkipUntitled(Tail(items))

\* The Requirement objects a generate request holds for its whole run
\* (existing_reqs of the improve_only and extend_existing modes), each with
\* req.versions as loaded by get_latest_version before the AI call.  In the
\* plain mode no object outlives its iteration (req = None, line 294), so
\* every req.versions is loaded again.
ExistingReqs(d, project_id, mode) ==
    IF mode = "plain" THEN <<>>
    ELSE [r \in {x.id : x \in {y \in d.requirement : y.project_id = project_id}}
            |-> VersionIndexes(d, r)]

\* A lookup that asks for the key before the id.
GenerateResolveKeyFirst(d, cache, project_id, item) ==
    LET by_id == IF /\ item.id # 0
                    /\ item.id \in RequirementIds(d)
                    /\ RequirementRow(d, item.id).project_id = project_id
                 THEN item.id ELSE 0
        key == normalize_key(item.title)
        by_key == FirstByKey(d, project_id, key)
        req_id == IF by_key # 0 THEN by_key ELSE by_id
        indexes == IF req_id \in DOMAIN cache THEN cache[req_id]
                   ELSE VersionIndexes(d, req_id)
    IN [req_id |-> req_id, key |-> key, indexes |-> indexes,
        version_index |-> IF req_id = 0 THEN 1 ELSE next_version_info(indexes)]

\* Lines 294-324: the target of an item on the rows d; req_id = 0 for a
\* requirement to create.  A held object answers req.versions from what it
\* loaded, any other is loaded from d.
GenerateResolve(d, cache, project_id, item) ==
    LET by_id == IF /\ item.id # 0
                    /\ item.id \in RequirementIds(d)
                    /\ RequirementRow(d, item.id).project_id = project_id
                 THEN item.id ELSE 0
        key == normalize_key(item.title)
        req_id == IF by_id # 0 THEN by_id ELSE FirstByKey(d, project_id, key)
        indexes == IF req_id \in DOMAIN cache THEN cache[req_id]
                   ELSE VersionIndexes(d, req_id)
    IN [req_id |-> req_id, key |-> key, indexes |-> indexes,
        version_index |-> IF req_id = 0 THEN 1 ELSE next_version_info(indexes)]

GenerateFields(item) ==
    [title |-> strip(item.title), description |-> item.description,
     category |-> item.category,
     status |-> IF item.status = "" THEN "Offen" ELSE item.status]

\* Lines 339-354: the custom columns with a value, and is_quantifiable, which
\* no column of the AI answer carries.
GenerateCustomData(item) ==
    CustomData({c \in {"Priority"} : item[c] # ""} \cup {"is_quantifiable"},
               item.Priority, "false")

\* An insert that looks the key up again in the transaction that writes.
GenerateInsertLookup(d, res, project_id, item, user) ==
    LET now == IF res.req_id # 0 THEN res
               ELSE GenerateResolve(d, <<>>, project_id, item)
    IN IF now.req_id = 0
       THEN LET req == Requirement(d, project_id, now.key)
            IN AddVersion([d EXCEPT !.requirement = @ \cup {req}], req.id, 1,
                          version_label(1), GenerateFields(item),
                          GenerateCustomData(item), user)
       ELSE AddVersion(d, now.req_id, now.version_index,
                       version_label(now.version_index), GenerateFields(item),
                       GenerateCustomData(item), user)

\* Lines 312-368 for one item whose target is res.
GenerateInsert(d, res, project_id, item, user) ==
    IF res.req_id = 0
    THEN LET req == Requirement(d, project_id, res.key)
         IN AddVersion([d EXCEPT !.requirement = @ \cup {req}], req.id, 1,
                       version_label(1), GenerateFields(item),
                       GenerateCustomData(item), user)
    ELSE AddVersion(d, res.req_id, res.version_index,
                    version_label(res.version_index), GenerateFields(item),
                    GenerateCustomData(item), user)

\* The rest of the loop, on the rows the request has written so far.
RECURSIVE GenerateItems(_, _, _, _, _)
GenerateItems(out, cache, project_id, items, user) ==
    IF ~out.ok \/ items = <<>> THEN out
    ELSE GenerateItems(
             GenerateInsert(out.d,
                            GenerateResolve(out.d, cache, project_id, Head(items)),
                            project_id, Head(items), user),
             cache, project_id, Tail(items), user)

\* A request enters generate: access check, mode, and in the improve_only and
\* extend_existing modes the read of the existing requirements.
\* str.lower() of a name.
LowerName(name) == [i \in DOMAIN name |-> lower(name[i])]

\* The custom columns of the form merged into the columns of the project: a
\* name that is not blank and whose lower-cased form is not among the
\* lower-cased names so far is appended, stripped.
RECURSIVE MergeColumns(_, _, _)
MergeColumns(custom_columns, current_custom_lower, form_custom_columns) ==
    IF form_custom_columns = <<>> THEN custom_columns
    ELSE LET col == Head(form_custom_columns)
         IN IF col # <<>> /\ strip(col) # <<>>
               /\ LowerName(col) \notin current_custom_lower
            THEN MergeColumns(Append(custom_columns, strip(col)),
                              current_custom_lower \cup {LowerName(col)},
                              Tail(form_custom_columns))
            ELSE MergeColumns(custom_columns, current_custom_lower,
                              Tail(form_custom_columns))

\* The first part of generate: the access check, the commit of the custom
\* columns of the form, and the reads of the mode; the improve mode of a
\* project without requirements ends the request with a 400.
generate_begin(p, user, project_id, mode, form_custom_columns) ==
    LET cache == ExistingReqs(db, project_id, mode)
        columns == db.custom_columns[project_id]
        merged == [db EXCEPT !.custom_columns[project_id] =
                      MergeColumns(columns,
                                   {LowerName(columns[i]) : i \in DOMAIN columns},
                                   form_custom_columns)]
    IN /\ pc[p] = "idle"
       /\ nreq < MaxRequests
       /\ IF ProjectRow(project_id).user_id # user
             /\ user \notin db.shared_with[project_id]
          THEN Refuse("forbidden")
          ELSE IF mode = "improve_only" /\ DOMAIN cache = {}
               THEN /\ Reply(merged, "invalid")
                    /\ UNCHANGED <<pc, local, fn_in, fn_out>>
               ELSE /\ local' = [local EXCEPT ![p] =
                                   [op |-> "generate", user |-> user,
                                    project_id |-> project_id,
                                    mode |-> mode, cache |-> cache]]
                    /\ pc' = [pc EXCEPT ![p] = "generate_resolve"]
                    /\ Reply(merged, "none")
                    /\ UNCHANGED <<fn_in, fn_out>>
       /\ nreq' = nreq + 1

\* The AI call returns answer; the reads of the first item with a title: the
\* id and key lookups and req.versions.  An answer with no such item writes
\* nothing.
generate_resolve(p, answer) ==
    LET l == local[p]
        items == SkipUntitled(
                     validate_and_normalize_requirements(answer, l.mode = "improve_only"))
    IN /\ pc[p] = "generate_resolve"
       /\ IF items = <<>>
          THEN /\ pc' = [pc EXCEPT ![p] = "idle"]
               /\ local' = [local EXCEPT ![p] = Idle]
               /\ response' = "ok"
          ELSE /\ pc' = [pc EXCEPT ![p] = "generate_commit"]
               /\ response' = "none"
               /\ local' = [local EXCEPT ![p] =
                              [op |-> "generate", user |-> l.user,
                               project_id |-> l.project_id, items |-> items,
                               cache |-> l.cache,
                               res |-> GenerateResolve(db, l.cache, l.project_id,
                                                       Head(items))]]
       /\ UNCHANGED <<db, nreq, fn_in, fn_out>>

\* What generate commits: the first item on the target read before, the others
\* on the rows written so far.
GenerateRun(d, l) ==
    GenerateItems(GenerateInsert(d, l.res, l.project_id, Head(l.items), l.user),
                  l.cache, l.project_id, Tail(l.items), l.user)

\* Lines 374-387, after the commit: for every requirement of the project whose
\* latest version the user has created within the last two seconds, that is in
\* this run, the other members are notified.  before is the version table as
\* the run found it.
RECURSIVE GenerateNotify(_, _, _, _, _)
GenerateNotify(d, before, req_ids, project_id, user) ==
    IF req_ids = <<>> THEN d
    ELSE LET latest == get_latest_version(d, Head(req_ids))
             created == /\ latest # 0
                        /\ VersionRow(d, latest).created_by_id = user
                        /\ VersionRow(d, latest) \notin before
         IN GenerateNotify(
                IF created
                THEN notify_requirement_created(d, latest, project_id, user)
                ELSE d,
                before, Tail(req_ids), project_id, user)

\* The writes of the run and db.session.commit(), or the rollback of line 402.
\* After the commit the notification loop, each notify_requirement_created with
\* a commit of its own: an exception ends the loop, is swallowed, and leaves the
\* notifications of the requirements before it; the answer is the same.
generate_commit(p, outcome) ==
    /\ pc[p] = "generate_commit"
    /\ LET run == GenerateRun(db, local[p])
           req_ids == SeqOf({r.id : r \in {x \in run.d.requirement :
                                              x.project_id = local[p].project_id}})
           sent == GenerateNotify(run.d, db.requirement_version, req_ids,
                                  local[p].project_id, local[p].user)
       IN IF ~run.ok THEN outcome = "sent" /\ Reply(db, "error")
          ELSE IF outcome = "sent" THEN Reply(sent, "ok")
          ELSE \E k \in 0..(Len(req_ids) - 1) :
                  /\ GenerateNotify(run.d, db.requirement_version,
                                    SubSeq(req_ids, 1, k),
                                    local[p].project_id, local[p].user) # sent
                  /\ Reply(GenerateNotify(run.d, db.requirement_version,
                                          SubSeq(req_ids, 1, k),
                                          local[p].project_id, local[p].user), "ok")
    /\ pc' = [pc EXCEPT ![p] = "idle"]
    /\ local' = [local EXCEPT ![p] = Idle]
    /\ UNCHANGED <<nreq, fn_in, fn_out>>

GenerateModes == {"plain", "extend_existing", "improve_only"}

-----------------------------------------------------------------------------
\* Ingestion of an Excel file (routes.py import_excel).

\* Lines 986-997: a row without a title or without a description is skipped.
RECURSIVE SkipRows(_)
SkipRows(rows) ==
    IF rows = <<>> THEN <<>>
    ELSE IF strip(Head(rows).title) = <<>> \/ Head(rows).description = ""
         THEN SkipRows(Tail(rows))
         ELSE <<Head(rows)>> \o SkipRows(Tail(rows))

\* The Requirement object the variable req still names while the next row's
\* query runs: the query returns that same object for the same row, with
\* req.versions as loaded (if it was loaded).
NoPrev == [req_id |-> 0, loaded |-> FALSE, indexes |-> {}]

\* Lines 1007-1022: the target of a row on the rows d.
ImportResolve(d, prev, project_id, row) ==
    LET key == normalize_key(strip(row.title))
        req_id == FirstByKey(d, project_id, key)
        indexes == IF req_id = 0 THEN {}
                   ELSE IF req_id = prev.req_id /\ prev.loaded THEN prev.indexes
                   ELSE VersionIndexes(d, req_id)
    IN [req_id |-> req_id, key |-> key, indexes |-> indexes,
        version_index |-> IF req_id = 0 \/ indexes = {} THEN 1
                          ELSE SetMax(indexes) + 1]

ImportFields(row) ==
    [title |-> strip(row.title), description |-> row.description,
     category |-> row.category,
     status |-> IF row.status \notin Statuses THEN "Offen" ELSE row.status]

\* Lines 1036-1043: the custom columns of the file that have a value.
ImportCustomData(row) ==
    CustomData({c \in {"Priority"} : row[c] # ""}, row.Priority, "false")

\* Lines 1012-1057 for one row whose target is res; prev is the object req
\* names afterwards.
ImportInsert(d, res, project_id, row, user) ==
    IF res.req_id = 0
    THEN LET req == Requirement(d, project_id, res.key)
             out == AddVersion([d EXCEPT !.requirement = @ \cup {req}], req.id, 1,
                               version_label(1), ImportFields(row),
                               ImportCustomData(row), user)
         IN [ok |-> out.ok, d |-> out.d,
             prev |-> [req_id |-> req.id, loaded |-> FALSE, indexes |-> {}]]
    ELSE LET out == AddVersion(d, res.req_id, res.version_index,
                               version_label(res.version_index), ImportFields(row),
                               ImportCustomData(row), user)
         IN [ok |-> out.ok, d |-> out.d,
             prev |-> [req_id |-> res.req_id, loaded |-> TRUE,
                       indexes |-> res.indexes]]

RECURSIVE ImportRows(_, _, _, _)
ImportRows(out, project_id, rows, user) ==
    IF ~out.ok \/ rows = <<>> THEN out
    ELSE ImportRows(
             ImportInsert(out.d,
                          ImportResolve(out.d, out.prev, project_id, Head(rows)),
                          project_id, Head(rows), user),
             project_id, Tail(rows), user)

\* The reads of the request: the access check and the lookup of the first row
\* that is not skipped.  A file with no such row writes nothing.
import_excel_begin(p, user, project_id, file) ==
    LET rows == SkipRows(file)
    IN /\ pc[p] = "idle"
       /\ nreq < MaxRequests
       /\ IF ProjectRow(project_id).user_id # user
             /\ user \notin db.shared_with[project_id]
          THEN Refuse("forbidden")
          ELSE /\ rows # <<>>
               /\ local' = [local EXCEPT ![p] =
                              [op |-> "import_excel", user |-> user,
                               project_id |-> project_id, items |-> rows,
                               res |-> ImportResolve(db, NoPrev, project_id,
                                                     Head(rows))]]
               /\ pc' = [pc EXCEPT ![p] = "import_excel_commit"]
               /\ response' = "none"
               /\ UNCHANGED <<db, fn_in, fn_out>>
       /\ nreq' = nreq + 1

ImportRun(d, l) ==
    ImportRows(ImportInsert(d, l.res, l.project_id, Head(l.items), l.user),
               l.project_id, Tail(l.items), l.user)

\* The writes of the import and db.session.commit(), or the rollback of
\* line 1065.
import_excel_commit(p) ==
    /\ pc[p] = "import_excel_commit"
    /\ IF ImportRun(db, local[p]).ok
       THEN Reply(ImportRun(db, local[p]).d, "ok")
       ELSE Reply(db, "error")
    /\ pc' = [pc EXCEPT ![p] = "idle"]
    /\ local' = [local EXCEPT ![p] = Idle]
    /\ UNCHANGED <<nreq, fn_in, fn_out>>

-----------------------------------------------------------------------------
\* Regeneration of one requirement (routes.py regenerate_requirement).

\* Lines 696-704: the requirement, the access check and its latest version,
\* which the request keeps as loaded.
regenerate_requirement_begin(p, user, req_id) ==
    /\ pc[p] = "idle"
    /\ nreq < MaxRequests
    /\ req_id \in RequirementIds(db)
    /\ IF ~check_project_access(db, RequirementRow(db, req_id).project_id, user)
       THEN Refuse("forbidden")
       ELSE /\ get_latest_version(db, req_id) # 0
            /\ local' = [local EXCEPT ![p] =
                           [op |-> "regenerate_requirement", user |-> user,
                            req_id |-> req_id,
                            latest_version |->
                                VersionRow(db, get_latest_version(db, req_id))]]
            /\ pc' = [pc EXCEPT ![p] = "regenerate_requirement_commit"]
            /\ response' = "none"
               /\ UNCHANGED <<db, fn_in, fn_out>>
    /\ nreq' = nreq + 1

\* Lines 729-754: the new version from the AI result, which has every column
\* asked for; the status is "Offen".
RegenerateRun(d, l, result) ==
    AddVersion(d, l.req_id, l.latest_version.version_index + 1,
               version_label(l.latest_version.version_index + 1),
               [title |-> strip(result.title), description |-> result.description,
                category |-> result.category, status |-> "Offen"],
               CustomData({c \in {"Priority"} : result[c] # ""},
                          result.Priority, "false"),
               l.user)

\* The AI result and lines 756-769; an exception (the IntegrityError of
\* uq_req_version) ends the request with nothing committed.
regenerate_requirement_commit(p, result) ==
    /\ pc[p] = "regenerate_requirement_commit"
    /\ HasRequiredData(AiColumnsItem(result, FALSE))
    /\ IF RegenerateRun(db, local[p], result).ok
       THEN Reply(RegenerateRun(db, local[p], result).d, "ok")
       ELSE Reply(db, "error")
    /\ pc' = [pc EXCEPT ![p] = "idle"]
    /\ local' = [local EXCEPT ![p] = Idle]
    /\ UNCHANGED <<nreq, fn_in, fn_out>>

-----------------------------------------------------------------------------
\* Deletion and restoration (routes.py).

\* Lines 621-630: the version, the access check and the count of the versions
\* of its requirement.
delete_requirement_version_begin(p, user, version_id) ==
    /\ pc[p] = "idle"
    /\ nreq < MaxRequests
    /\ version_id \in VersionIds(db)
    /\ VersionRow(db, version_id).requirement_id \in RequirementIds(db)
    /\ IF ~check_project_access(
               db,
               RequirementRow(db, VersionRow(db, version_id).requirement_id).project_id,
               user)
       THEN Refuse("forbidden")
       ELSE /\ local' = [local EXCEPT ![p] =
                           [op |-> "delete_requirement_version", user |-> user,
                            version_id |-> version_id,
                            req_id |-> VersionRow(db, version_id).requirement_id,
                            remaining_versions |->
                                Cardinality(versions(
                                    db, VersionRow(db, version_id).requirement_id))]]
            /\ pc' = [pc EXCEPT ![p] = "delete_requirement_version_commit"]
            /\ response' = "none"
               /\ UNCHANGED <<db, fn_in, fn_out>>
    /\ nreq' = nreq + 1

\* req.is_deleted = True.
SoftDelete(d, req_id, flag) ==
    [d EXCEPT !.requirement =
        {IF r.id = req_id THEN [r EXCEPT !.is_deleted = flag] ELSE r : r \in @}]

\* db.session.delete(version): the row and, by cascade, its history entries.
\* Of a row that is gone already nothing is left to delete.  The comments
\* relationship (backref of RequirementComment.version) has no delete cascade:
\* the flush sets version_id of the version's comments to NULL, the column is
\* NOT NULL, and the IntegrityError leaves nothing committed.
DeleteVersion(d, version_id) ==
    IF version_id \notin VersionIds(d) THEN d
    ELSE IF \E c \in d.comment : c.version_id = version_id THEN d
    ELSE [d EXCEPT !.requirement_version = {v \in @ : v.id # version_id},
                   !.history = {h \in @ : h.version_id # version_id}]

\* Lines 632-641.
DeleteVersionRun(d, l) ==
    IF l.remaining_versions = 1
    THEN SoftDelete(d, l.req_id, TRUE)
    ELSE DeleteVersion(d, l.version_id)

delete_requirement_version_commit(p) ==
    /\ pc[p] = "delete_requirement_version_commit"
    /\ Reply(DeleteVersionRun(db, local[p]),
             IF /\ local[p].remaining_versions # 1
                /\ \E c \in db.comment : c.version_id = local[p].version_id
             THEN "error" ELSE "ok")
    /\ pc' = [pc EXCEPT ![p] = "idle"]
    /\ local' = [local EXCEPT ![p] = Idle]
    /\ UNCHANGED <<nreq, fn_in, fn_out>>

delete_requirement(user, req_id) ==
    /\ nreq < MaxRequests
    /\ req_id \in RequirementIds(db)
    /\ IF check_project_access(db, RequirementRow(db, req_id).project_id, user)
       THEN Reply(SoftDelete(db, req_id, TRUE), "ok")
       ELSE Reply(db, "forbidden")
    /\ nreq' = nreq + 1
    /\ UNCHANGED <<pc, local, fn_in, fn_out>>

restore_requirement(user, req_id) ==
    /\ nreq < MaxRequests
    /\ req_id \in RequirementIds(db)
    /\ IF check_project_access(db, RequirementRow(db, req_id).project_id, user)
       THEN Reply(SoftDelete(db, req_id, FALSE), "ok")
       ELSE Reply(db, "forbidden")
    /\ nreq' = nreq + 1
    /\ UNCHANGED <<pc, local, fn_in, fn_out>>

-----------------------------------------------------------------------------
\* Edits of a version in place (routes.py).

\* dict.get(key, default) on a custom_data object.
Get(custom_data, key, default) ==
    IF key \in DOMAIN custom_data THEN custom_data[key] ELSE default

ReplaceVersion(d, v) ==
    [d EXCEPT !.requirement_version = {IF w.id = v.id THEN v ELSE w : w \in @}]

VersionProject(d, version_id) ==
    RequirementRow(d, VersionRow(d, version_id).requirement_id).project_id

\* version.requirement is None for a version row whose requirement row is gone;
\* every handler that reads version.requirement.project then fails (500) before
\* it writes.
HasRequirement(d, version_id) ==
    VersionRow(d, version_id).requirement_id \in RequirementIds(d)

\* check_version_access.
check_version_access(d, version_id, user) ==
    /\ HasRequirement(d, version_id)
    /\ check_project_access(d, VersionProject(d, version_id), user)

\* Lines 510-519.
NewStatus(old_status, form) ==
    IF form.status # "" /\ form.status \in Statuses THEN form.status
    ELSE IF form.save_type = "intermediate" THEN "In Arbeit"
    ELSE IF form.save_type = "final" THEN "Fertig"
    ELSE old_status

\* A changes map that compares the status with the status field of the form
\* only.
UpdateChangesFormStatus(v, form) ==
    {k \in {"title", "description", "category", "status", "custom_Priority",
            "is_quantifiable"} :
        \/ k = "title" /\ v.title # strip(form.title)
        \/ k = "description" /\ v.description # form.description
        \/ k = "category" /\ v.category # form.category
        \/ k = "status" /\ form.status \in Statuses /\ v.status # form.status
        \/ k = "custom_Priority" /\ Get(v.custom_data, "Priority", "") # form.Priority
        \/ k = "is_quantifiable"
           /\ Get(v.custom_data, "is_quantifiable", "false")
              # (IF form.is_quantifiable THEN "true" ELSE "false")}

\* Lines 502-552: the keys of the changes map.
UpdateChanges(v, form) ==
    {k \in {"title", "description", "category", "status", "custom_Priority",
            "is_quantifiable"} :
        \/ k = "title" /\ v.title # strip(form.title)
        \/ k = "description" /\ v.description # form.description
        \/ k = "category" /\ v.category # form.category
        \/ k = "status" /\ v.status # NewStatus(v.status, form)
        \/ k = "custom_Priority" /\ Get(v.custom_data, "Priority", "") # form.Priority
        \/ k = "is_quantifiable"
           /\ Get(v.custom_data, "is_quantifiable", "false")
              # (IF form.is_quantifiable THEN "true" ELSE "false")}

\* A write that also releases the block of the version.
UpdatedVersionReleased(v, form, user) ==
    [v EXCEPT !.title = strip(form.title),
              !.description = form.description,
              !.category = form.category,
              !.status = NewStatus(v.status, form),
              !.last_modified_by_id = user,
              !.is_blocked = FALSE,
              !.blocked_by_id = 0,
              !.blocked_at = 0,
              !.custom_data =
                  [k \in DOMAIN v.custom_data \cup {"Priority", "is_quantifiable"} |->
                     IF k = "Priority" THEN form.Priority
                     ELSE IF k = "is_quantifiable"
                          THEN (IF form.is_quantifiable THEN "true" ELSE "false")
                          ELSE v.custom_data[k]]]

\* Lines 524-555: the version as written.
UpdatedVersion(v, form, user) ==
    [v EXCEPT !.title = strip(form.title),
              !.description = form.description,
              !.category = form.category,
              !.status = NewStatus(v.status, form),
              !.last_modified_by_id = user,
              !.custom_data =
                  [k \in DOMAIN v.custom_data \cup {"Priority", "is_quantifiable"} |->
                     IF k = "Priority" THEN form.Priority
                     ELSE IF k = "is_quantifiable"
                          THEN (IF form.is_quantifiable THEN "true" ELSE "false")
                          ELSE v.custom_data[k]]]

\* Any user with access to the project may edit: the handler asks neither
\* is_blocked nor can_be_edited_by.
\* Lines 567-578: the commit, then the notifications in a try whose except
\* passes, then flash(version.status) and the redirect.
update_requirement_version(user, version_id, form, outcome) ==
    /\ nreq < MaxRequests
    /\ version_id \in VersionIds(db)
    /\ LET v == VersionRow(db, version_id)
           written == ReplaceVersion(db, UpdatedVersion(v, form, user))
           saved == IF UpdateChanges(v, form) # {}
                    THEN [written EXCEPT !.history = @ \cup
                            {RequirementVersionHistory(db, version_id, user, "modified",
                                                       UpdateChanges(v, form))}]
                    ELSE written
           sent == notify_requirement_updated(saved, version_id,
                                              VersionProject(db, version_id), user)
       IN IF ~check_version_access(db, version_id, user)
          THEN outcome = "sent" /\ Reply(db, "forbidden")
          ELSE IF strip(form.title) = <<>> \/ form.description = ""
               THEN outcome = "sent" /\ Reply(db, "invalid")
          ELSE CASE outcome = "sent" -> Reply(sent, "ok")
                 [] outcome = "raised" -> Reply(saved, "ok")
                 [] outcome = "flush_failed" -> sent # saved /\ Reply(saved, "error")
    /\ nreq' = nreq + 1
    /\ UNCHANGED <<pc, local, fn_in, fn_out>>

\* Lines 310-318; a status outside the list changes nothing.
update_status(user, version_id, status) ==
    /\ nreq < MaxRequests
    /\ version_id \in VersionIds(db)
    /\ IF ~check_version_access(db, version_id, user) THEN Reply(db, "forbidden")
       ELSE IF status \in Statuses
            THEN Reply(ReplaceVersion(db, [VersionRow(db, version_id)
                                              EXCEPT !.status = status]), "ok")
            ELSE Reply(db, "invalid")
    /\ nreq' = nreq + 1
    /\ UNCHANGED <<pc, local, fn_in, fn_out>>

\* Lines 291-303.
update_custom_data(user, version_id, column_name, value) ==
    /\ nreq < MaxRequests
    /\ version_id \in VersionIds(db)
    /\ LET v == VersionRow(db, version_id)
       IN IF ~check_version_access(db, version_id, user) THEN Reply(db, "forbidden")
          ELSE Reply(ReplaceVersion(db, [v EXCEPT !.custom_data =
                        [k \in DOMAIN v.custom_data \cup {column_name} |->
                            IF k = column_name THEN value ELSE v.custom_data[k]]]),
                     "ok")
    /\ nreq' = nreq + 1
    /\ UNCHANGED <<pc, local, fn_in, fn_out>>

\* Lines 583-613.
toggle_quantifiable(user, version_id) ==
    /\ nreq < MaxRequests
    /\ version_id \in VersionIds(db)
    /\ LET v == VersionRow(db, version_id)
           new_value == IF Get(v.custom_data, "is_quantifiable", "false") = "true"
                        THEN "false" ELSE "true"
       IN IF ~check_version_access(db, version_id, user) THEN Reply(db, "forbidden")
          ELSE Reply([ReplaceVersion(db, [v EXCEPT
                          !.last_modified_by_id = user,
                          !.custom_data =
                             [k \in DOMAIN v.custom_data \cup {"is_quantifiable"} |->
                                 IF k = "is_quantifiable" THEN new_value
                                 ELSE v.custom_data[k]]])
                      EXCEPT !.history = @ \cup
                          {RequirementVersionHistory(db, version_id, user, "modified",
                                                     {"is_quantifiable"})}], "ok")
    /\ nreq' = nreq + 1
    /\ UNCHANGED <<pc, local, fn_in, fn_out>>

\* A toggle that lets every user with access to the project pass.
toggle_block_requirement_any(user, version_id) ==
    /\ nreq < MaxRequests
    /\ version_id \in VersionIds(db)
    /\ HasRequirement(db, version_id)
    /\ LET v == VersionRow(db, version_id)
       IN IF ~check_version_access(db, version_id, user)
          THEN Reply(db, "forbidden")
          ELSE Reply(ReplaceVersion(db,
                         IF v.is_blocked
                         THEN [v EXCEPT !.is_blocked = FALSE, !.blocked_by_id = 0,
                                        !.blocked_at = 0]
                         ELSE [v EXCEPT !.is_blocked = TRUE, !.blocked_by_id = user,
                                        !.blocked_at = 1]), "ok")
    /\ nreq' = nreq + 1
    /\ UNCHANGED <<pc, local, fn_in, fn_out>>

\* Lines 1129-1153: only the owner of the project passes, any other user is
\* answered 403 and nothing is written; blocked_at is 1 for a timestamp, 0 for
\* None.
\* toggle_block_requirement whose unblock branch clears the flag only.
toggle_block_requirement_flag_only(user, version_id) ==
    /\ nreq < MaxRequests
    /\ version_id \in VersionIds(db)
    /\ HasRequirement(db, version_id)
    /\ LET v == VersionRow(db, version_id)
       IN IF ProjectRow(VersionProject(db, version_id)).user_id # user
          THEN Reply(db, "forbidden")
          ELSE Reply(ReplaceVersion(db,
                         IF v.is_blocked
                         THEN [v EXCEPT !.is_blocked = FALSE]
                         ELSE [v EXCEPT !.is_blocked = TRUE, !.blocked_by_id = user,
                                        !.blocked_at = 1]), "ok")
    /\ nreq' = nreq + 1
    /\ UNCHANGED <<pc, local, fn_in, fn_out>>

toggle_block_requirement(user, version_id) ==
    /\ nreq < MaxRequests
    /\ version_id \in VersionIds(db)
    /\ HasRequirement(db, version_id)
    /\ LET v == VersionRow(db, version_id)
       IN IF ProjectRow(VersionProject(db, version_id)).user_id # user
          THEN Reply(db, "forbidden")
          ELSE Reply(ReplaceVersion(db,
                         IF v.is_blocked
                         THEN [v EXCEPT !.is_blocked = FALSE, !.blocked_by_id = 0,
                                        !.blocked_at = 0]
                         ELSE [v EXCEPT !.is_blocked = TRUE, !.blocked_by_id = user,
                                        !.blocked_at = 1]), "ok")
    /\ nreq' = nreq + 1
    /\ UNCHANGED <<pc, local, fn_in, fn_out>>

-----------------------------------------------------------------------------
\* Permanent deletion (routes.py delete_requirement_permanently).

\* db.session.delete(req): the requirement, by cascade its versions and their
\* history entries.  A comment on one of the versions makes the flush fail as
\* in DeleteVersion, and nothing is committed.
DeleteRequirement(d, req_id) ==
    IF \E c \in d.comment : c.version_id \in {v.id : v \in versions(d, req_id)}
    THEN d
    ELSE [d EXCEPT
            !.requirement = {r \in @ : r.id # req_id},
            !.requirement_version = {v \in @ : v.requirement_id # req_id},
            !.history = {h \in @ : h.version_id
                                     \notin {v.id : v \in versions(d, req_id)}}]

delete_requirement_permanently(user, req_id) ==
    /\ nreq < MaxRequests
    /\ req_id \in RequirementIds(db)
    /\ IF ~check_project_access(db, RequirementRow(db, req_id).project_id, user)
       THEN Reply(db, "forbidden")
       ELSE Reply(DeleteRequirement(db, req_id),
                  IF DeleteRequirement(db, req_id) = db THEN "error" ELSE "ok")
    /\ nreq' = nreq + 1
    /\ UNCHANGED <<pc, local, fn_in, fn_out>>

-----------------------------------------------------------------------------
\* Sharing (routes.py share_project, unshare_project).

\* target is the user of the e-mail address typed, 0 when there is none.
share_project(user, project_id, target) ==
    /\ nreq < MaxRequests
    /\ IF ~check_project_access(db, project_id, user) THEN Reply(db, "forbidden")
       ELSE IF target = 0 \/ target = user \/ target \in db.shared_with[project_id]
            THEN Reply(db, "invalid")
            ELSE Reply([db EXCEPT !.shared_with[project_id] = @ \cup {target}], "ok")
    /\ nreq' = nreq + 1
    /\ UNCHANGED <<pc, local, fn_in, fn_out>>

\* The names a request may send as a column name.
ColumnNames == {<<>>, <<" ">>, <<"Risk">>, <<" ", "Risk">>, <<"Priority">>}

In(x, seq) == \E i \in DOMAIN seq : seq[i] = x

add_column(user, project_id, column_name) ==
    /\ nreq < MaxRequests
    /\ LET columns == db.custom_columns[project_id]
       IN IF ~check_project_access(db, project_id, user) THEN Reply(db, "forbidden")
          ELSE IF strip(column_name) = <<>> THEN Reply(db, "invalid")
          ELSE IF In(strip(column_name), columns) THEN Reply(db, "invalid")
          ELSE Reply([db EXCEPT !.custom_columns[project_id] =
                         Append(columns, strip(column_name))], "ok")
    /\ nreq' = nreq + 1
    /\ UNCHANGED <<pc, local, fn_in, fn_out>>

PROTECTED_COLUMNS ==
    {<<"title">>, <<"description">>, <<"category">>, <<"status">>, <<"titel">>,
     <<"beschreibung">>, <<"kategorie">>, <<"id">>, <<"version">>, <<"ver">>,
     <<"version_label">>, <<"version_index">>}

remove_column(user, project_id, column_name) ==
    /\ nreq < MaxRequests
    /\ LET columns == db.custom_columns[project_id]
       IN IF ~check_project_access(db, project_id, user) THEN Reply(db, "forbidden")
          ELSE IF LowerName(column_name) \in {LowerName(c) : c \in PROTECTED_COLUMNS}
               THEN Reply(db, "invalid")
          ELSE IF In(column_name, columns)
               THEN Reply([db EXCEPT !.custom_columns[project_id] =
                              SelectSeq(columns, LAMBDA c : c # column_name)], "ok")
               ELSE Reply(db, "invalid")
    /\ nreq' = nreq + 1
    /\ UNCHANGED <<pc, local, fn_in, fn_out>>

unshare_project(user, project_id, target) ==
    /\ nreq < MaxRequests
    /\ target \in Users
    /\ IF ~check_project_access(db, project_id, user) THEN Reply(db, "forbidden")
       ELSE IF target \in db.shared_with[project_id]
            THEN Reply([db EXCEPT !.shared_with[project_id] = @ \ {target}], "ok")
            ELSE Reply(db, "invalid")
    /\ nreq' = nreq + 1
    /\ UNCHANGED <<pc, local, fn_in, fn_out>>

-----------------------------------------------------------------------------
\* Comments (routes.py) and their notifications.

CommentIds(d) == {c.id : c \in d.comment}

CommentRow(d, comment_id) == CHOOSE c \in d.comment : c.id = comment_id

\* A comment text is a list of words; a word that begins with @ is a mention.
\* parse_mentions: the mentions of the text without the @, each once.
MentionOf(word) == CASE word = "@u2" -> "u2"
                     [] word = "@u2@x.org" -> "u2@x.org"
                     [] word = "@u3" -> "u3"
                     [] OTHER -> ""

parse_mentions(text) ==
    {MentionOf(text[i]) : i \in 1..Len(text)} \ {""}

\* The users have the addresses u1@x.org, u2@x.org and u3@x.org.
\* find_user_by_mention: the user of that address, else the first user whose
\* address begins with the part before the @; 0 (None) for a user without
\* access to the project.
find_user_by_mention(d, mention, project_id) ==
    LET user == CASE mention = "u2" -> 2
                  [] mention = "u2@x.org" -> 2
                  [] mention = "u3" -> 3
                  [] OTHER -> 0
    IN IF user # 0 /\ (ProjectRow(project_id).user_id = user
                       \/ user \in d.shared_with[project_id])
       THEN user ELSE 0

RequirementComment(d, version_id, author_id, text, parent_comment_id) ==
    [id |-> NextId(d.comment), version_id |-> version_id, author_id |-> author_id,
     text |-> text, parent_comment_id |-> parent_comment_id, is_deleted |-> FALSE]

\* The first loop of notify_comment_added: a 'mention' notification for every
\* mention that finds a user other than the actor.
RECURSIVE NotifyMentions(_, _, _, _, _)
NotifyMentions(d, mentions, project_id, comment_id, actor) ==
    IF mentions = {} THEN d
    ELSE LET mention == CHOOSE m \in mentions : TRUE
             user == find_user_by_mention(d, mention, project_id)
         IN NotifyMentions(
                IF user # 0 /\ user # actor
                THEN create_notification(d, user, "mention", "comment", comment_id, actor)
                ELSE d,
                mentions \ {mention}, project_id, comment_id, actor)

notify_comment_added(d, comment, project_id, actor) ==
    NotifyUsers(
        NotifyMentions(d, parse_mentions(comment.text), project_id, comment.id, actor),
        project_users(d, project_id),
        {find_user_by_mention(d, m, project_id) : m \in parse_mentions(comment.text)} \ {0},
        "comment", "comment", comment.id, actor)

\* A parent check that does not compare the versions.
InvalidParentAnyVersion(d, version_id, parent_comment_id) ==
    /\ parent_comment_id # 0
    /\ \/ parent_comment_id \notin CommentIds(d)
       \/ CommentRow(d, parent_comment_id).is_deleted

\* Lines 1285-1288: the parent id given names no comment, a comment of another
\* version or a deleted comment.
InvalidParent(d, version_id, parent_comment_id) ==
    /\ parent_comment_id # 0
    /\ \/ parent_comment_id \notin CommentIds(d)
       \/ CommentRow(d, parent_comment_id).version_id # version_id
       \/ CommentRow(d, parent_comment_id).is_deleted

\* Lines 1290-1301: the comment is committed, then the notifications.
CreateComment(d, user, version_id, text, parent_comment_id) ==
    LET comment == RequirementComment(d, version_id, user, text, parent_comment_id)
    IN notify_comment_added([d EXCEPT !.comment = @ \cup {comment}], comment,
                            VersionProject(d, version_id), user)

\* An empty text and an invalid parent are answered 400 and nothing is written.
\* Lines 1296-1318: the commit, then the notifications in a try whose except
\* passes, then the answer built from comment.id and comment.author.
create_comment(user, version_id, text, parent_comment_id, outcome) ==
    /\ nreq < MaxRequests
    /\ version_id \in VersionIds(db)
    /\ LET added == [db EXCEPT !.comment = @ \cup
                        {RequirementComment(db, version_id, user, text,
                                            parent_comment_id)}]
           sent == CreateComment(db, user, version_id, text, parent_comment_id)
       IN IF ~check_version_access(db, version_id, user)
          THEN outcome = "sent" /\ Reply(db, "forbidden")
          ELSE IF text = <<>> \/ InvalidParent(db, version_id, parent_comment_id)
               THEN outcome = "sent" /\ Reply(db, "invalid")
          ELSE CASE outcome = "sent" -> Reply(sent, "ok")
                 [] outcome = "raised" -> Reply(added, "ok")
                 [] outcome = "flush_failed" -> sent # added /\ Reply(added, "error")
    /\ nreq' = nreq + 1
    /\ UNCHANGED <<pc, local, fn_in, fn_out>>

\* Only the author edits; a deleted comment and an empty text are refused.
update_comment(user, comment_id, text) ==
    /\ nreq < MaxRequests
    /\ comment_id \in CommentIds(db)
    /\ IF \/ ~check_version_access(db, CommentRow(db, comment_id).version_id, user)
          \/ CommentRow(db, comment_id).author_id # user
       THEN Reply(db, "forbidden")
       ELSE IF CommentRow(db, comment_id).is_deleted \/ text = <<>>
            THEN Reply(db, "invalid")
            ELSE Reply([db EXCEPT !.comment =
                          {IF c.id = comment_id THEN [c EXCEPT !.text = text] ELSE c :
                              c \in @}], "ok")
    /\ nreq' = nreq + 1
    /\ UNCHANGED <<pc, local, fn_in, fn_out>>

\* The author and the project owner may delete; the comment is kept with
\* is_deleted set.
delete_comment(user, comment_id) ==
    /\ nreq < MaxRequests
    /\ comment_id \in CommentIds(db)
    /\ IF \/ ~check_version_access(db, CommentRow(db, comment_id).version_id, user)
          \/ /\ CommentRow(db, comment_id).author_id # user
             /\ ProjectRow(VersionProject(
                     db, CommentRow(db, comment_id).version_id)).user_id # user
       THEN Reply(db, "forbidden")
       ELSE Reply([db EXCEPT !.comment =
                     {IF c.id = comment_id THEN [c EXCEPT !.is_deleted = TRUE] ELSE c :
                         c \in @}], "ok")
    /\ nreq' = nreq + 1
    /\ UNCHANGED <<pc, local, fn_in, fn_out>>

\* get_comments: the ids of the comments in the answer.  The comments of the
\* version that are not deleted are fetched; one without parent is a root of
\* the answer, one whose parent is among the fetched is put under that parent,
\* any other is put nowhere.
RECURSIVE Thread(_, _)
Thread(fetched, ids) ==
    LET more == ids \cup {c.id : c \in {x \in fetched : x.parent_comment_id \in ids}}
    IN IF more = ids THEN ids ELSE Thread(fetched, more)

get_comments(d, version_id) ==
    LET fetched == {c \in d.comment : c.version_id = version_id /\ ~c.is_deleted}
    IN Thread(fetched, {c.id : c \in {x \in fetched : x.parent_comment_id = 0}})

-----------------------------------------------------------------------------
\* Listings (routes.py), each as the set of the requirement ids it shows.

Latest(d, req_id) == VersionRow(d, get_latest_version(d, req_id))

manage_project(d, project_id) ==
    {r.id : r \in {x \in d.requirement :
                      /\ x.project_id = project_id /\ ~x.is_deleted
                      /\ versions(d, x.id) # {}}}

kanban_view(d, project_id) ==
    {r.id : r \in {x \in d.requirement :
                      /\ x.project_id = project_id /\ ~x.is_deleted
                      /\ get_latest_version(d, x.id) # 0
                      /\ Latest(d, x.id).status \in Statuses}}

requirements_status_json(d, project_id) ==
    {r.id : r \in {x \in d.requirement :
                      /\ x.project_id = project_id /\ ~x.is_deleted
                      /\ get_latest_version(d, x.id) # 0}}

export_excel(d, project_id) ==
    {r.id : r \in {x \in d.requirement :
                      /\ x.project_id = project_id /\ ~x.is_deleted
                      /\ get_latest_version(d, x.id) # 0}}

\* The trash view of a user: the deleted requirements of the projects the
\* user owns.
deleted_requirements_overview(d, user) ==
    {r.id : r \in {x \in d.requirement :
                      /\ ProjectRow(x.project_id).user_id = user /\ x.is_deleted
                      /\ get_latest_version(d, x.id) # 0}}

-----------------------------------------------------------------------------
\* The request inputs explored.

\* AI answers: a new title; a title with the key of "A"; an id hint with the
\* title of another requirement; two items of one key; an item without title.
Answers == {<<Candidate(0, B_, Payload1)>>,
            <<Candidate(0, a_, Payload2)>>,
            <<Candidate(1, B_, Payload2)>>,
            <<Candidate(2, B_, Payload2)>>,
            <<Candidate(0, <<>>, Payload1), Candidate(0, A_, Payload1)>>}

\* Excel files: rows as typed, titles not yet stripped.  The last file has two
\* rows of one key.
Files == {<<Candidate(0, <<" ", "a", " ">>, Payload2)>>,
          <<Candidate(0, B_, Payload1)>>,
          <<Candidate(0, A_, Payload1), Candidate(0, <<" ", "a", " ">>, Payload2)>>,
          <<Candidate(0, <<" ">>, Payload1), Candidate(0, A_, Payload1)>>}

RegenerateResults == {Candidate(0, B_, Payload2)}

Forms == {[title |-> B_, description |-> "d1", category |-> "", status |-> "",
           save_type |-> "intermediate", Priority |-> "High",
           is_quantifiable |-> FALSE],
          [title |-> a_, description |-> "d2", category |-> "c", status |-> "Fertig",
           save_type |-> "final", Priority |-> "", is_quantifiable |-> TRUE],
          [title |-> <<" ">>, description |-> "d1", category |-> "", status |-> "",
           save_type |-> "intermediate", Priority |-> "", is_quantifiable |-> FALSE]}

\* Comment texts: none, a word, two mentions of user 2.
Texts == {<<>>, <<"w">>, <<"@u2", "@u2@x.org">>}

\* The rows the behaviours start from: user 3 has generated "A" in project 2,
\* then user 1 has imported "A" and " a " into project 1 (requirement 2 with
\* versions A and B), then user 3 has written a comment on version 1 and a
\* reply to it.
SeedDb ==
    LET first == GenerateItems(Ok(EmptyDb), <<>>, 2,
                               <<Candidate(0, A_, Payload1)>>, 3).d
        second == ImportRows([ok |-> TRUE, d |-> first, prev |-> NoPrev], 1,
                             <<Candidate(0, A_, Payload1),
                               Candidate(0, <<" ", "a", " ">>, Payload2)>>, 1).d
    IN CreateComment(CreateComment(second, 3, 1, <<"w">>, 0), 3, 1, <<"w">>, 1)

Init ==
    /\ db = SeedDb
    /\ pc = [p \in Procs |-> "idle"]
    /\ local = [p \in Procs |-> Idle]
    /\ nreq = 0
    /\ response = "none"
    /\ fn_in = <<>>
    /\ fn_out = <<>>

NextStore ==
    \/ \E p \in Procs, user \in Users, project_id \in ProjectIds,
          mode \in GenerateModes : generate_begin(p, user, project_id, mode, <<>>)
    \/ \E p \in Procs, answer \in Answers : generate_resolve(p, answer)
    \/ \E p \in Procs : generate_commit(p, "sent")
    \/ \E p \in Procs, user \in Users, project_id \in ProjectIds, file \in Files :
           import_excel_begin(p, user, project_id, file)
    \/ \E p \in Procs : import_excel_commit(p)
    \/ \E p \in Procs, user \in Users, req_id \in RequirementIds(db) :
           regenerate_requirement_begin(p, user, req_id)
    \/ \E p \in Procs, result \in RegenerateResults :
           regenerate_requirement_commit(p, result)
    \/ \E p \in Procs, user \in Users, version_id \in VersionIds(db) :
           delete_requirement_version_begin(p, user, version_id)
    \/ \E p \in Procs : delete_requirement_version_commit(p)
    \/ \E user \in Users, req_id \in RequirementIds(db) :
           delete_requirement(user, req_id)
    \/ \E user \in Users, req_id \in RequirementIds(db) :
           restore_requirement(user, req_id)

NextEdit ==
    \/ \E user \in Users, version_id \in VersionIds(db), form \in Forms :
           update_requirement_version(user, version_id, form, "sent")
    \/ \E user \in Users, version_id \in VersionIds(db), status \in Statuses \cup {"Done"} :
           update_status(user, version_id, status)
    \/ \E user \in Users, version_id \in VersionIds(db),
          column_name \in {"Priority", ""}, value \in {"", "Low"} :
           update_custom_data(user, version_id, column_name, value)
    \/ \E user \in Users, version_id \in VersionIds(db) :
           toggle_quantifiable(user, version_id)
    \/ \E user \in Users, version_id \in VersionIds(db) :
           toggle_block_requirement(user, version_id)

NextThread ==
    \/ \E user \in Users, version_id \in VersionIds(db), text \in Texts,
          parent_comment_id \in 0..NextId(db.comment) :
           create_comment(user, version_id, text, parent_comment_id, "sent")
    \/ \E user \in Users, comment_id \in CommentIds(db), text \in Texts :
           update_comment(user, comment_id, text)
    \/ \E user \in Users, comment_id \in CommentIds(db) :
           delete_comment(user, comment_id)

NextShare ==
    \/ \E user \in Users, project_id \in ProjectIds, target \in Users \cup {0} :
           share_project(user, project_id, target)
    \/ \E user \in Users, project_id \in ProjectIds, target \in Users :
           unshare_project(user, project_id, target)

\* The requests that change the custom columns of a project.
NextColumns ==
    \/ \E user \in Users, project_id \in ProjectIds, column_name \in ColumnNames :
           add_column(user, project_id, column_name)
    \/ \E user \in Users, project_id \in ProjectIds,
          column_name \in {<<"Risk">>, <<"title">>} :
           remove_column(user, project_id, column_name)
    \/ \E p \in Procs, user \in Users, project_id \in ProjectIds,
          mode \in GenerateModes :
           generate_begin(p, user, project_id, mode, << <<" ">>, <<"Risk">> >>)

NextPurge ==
    \E user \in Users, req_id \in RequirementIds(db) :
        delete_requirement_permanently(user, req_id)

\* The same three handlers when their notification helper fails after the
\* primary commit: it raised before writing anything, or its own commit failed.
NotifyFails ==
    \E outcome \in NotifyOutcomes \ {"sent"} :
        \/ \E p \in Procs : generate_commit(p, outcome)
        \/ \E user \in Users, version_id \in VersionIds(db), form \in Forms :
               update_requirement_version(user, version_id, form, outcome)
        \/ \E user \in Users, version_id \in VersionIds(db), text \in Texts,
               parent_comment_id \in 0..NextId(db.comment) :
               create_comment(user, version_id, text, parent_comment_id, outcome)

Next ==
    \/ NextStore \/ NextEdit \/ NextThread \/ NextShare \/ NextPurge
    \/ NotifyFails \/ NextColumns

Spec == Init /\ [][Next]_vars

\* The requests of the store alone; the edit handlers insert and delete no
\* row and write neither version_index nor key.
SpecStore == Init /\ [][NextStore]_vars

\* Requests one at a time: while a request is under way, the next step is its
\* own.
Serial == \A p \in Procs : pc[p] # "idle" => pc'[p] # pc[p]

NextSerial == NextStore /\ Serial

SpecSerial == Init /\ [][NextSerial]_vars

\* The requests that edit a version, block it or unblock it.
SpecEdit == Init /\ [][NextEdit]_vars

\* Every kind of request once a version is blocked, and before that the
\* requests that edit and block.
NextBlock ==
    \/ NextEdit
    \/ /\ \E v \in db.requirement_version : v.is_blocked
       /\ (NextShare \/ NextThread \/ NextPurge \/ NextSerial)

SpecBlock == Init /\ [][NextBlock]_vars

\* The requests on comments, and permanent deletion.
NextComment == NextThread \/ NextPurge

SpecThread == Init /\ [][NextComment]_vars

-----------------------------------------------------------------------------
\* can_be_edited_by as a function of its inputs: a version row (not blocked,
\* or blocked by some user), the owner of its project, and the asking user.

FnUsers == {1, 2, 3, 4}

CanEditInputs ==
    {[is_blocked |-> b, blocked_by_id |-> by, owner_id |-> o, user |-> u] :
        b \in BOOLEAN, by \in FnUsers \cup {0}, o \in FnUsers, u \in FnUsers}

InitCanEdit ==
    /\ db = SeedDb
    /\ pc = [p \in Procs |-> "idle"]
    /\ local = [p \in Procs |-> Idle]
    /\ nreq = 0
    /\ response = "none"
    /\ fn_in \in {i \in CanEditInputs : i.is_blocked <=> i.blocked_by_id # 0}
    /\ fn_out = <<>>

ApplyCanEdit ==
    /\ fn_out = <<>>
    /\ fn_out' = <<can_be_edited_by(fn_in.is_blocked, fn_in.blocked_by_id,
                                   fn_in.owner_id, fn_in.user)>>
    /\ UNCHANGED <<db, pc, local, nreq, response, fn_in>>

SpecCanEdit == InitCanEdit /\ [][ApplyCanEdit]_vars

\* normalize_key on its own: the title is any string of at most MaxTitleLen
\* characters out of TitleChars, and the function is applied to it and then to
\* its own result.
MaxTitleLen == 4

TitleChars == {" ", "\t", "A", "b"}

InitNormalizeKey ==
    /\ db = SeedDb
    /\ pc = [p \in Procs |-> "idle"]
    /\ local = [p \in Procs |-> Idle]
    /\ nreq = 0
    /\ response = "none"
    /\ fn_in \in UNION {[1..n -> TitleChars] : n \in 0..MaxTitleLen}
    /\ fn_out = <<>>

ApplyNormalizeKey ==
    /\ Len(fn_out) < 2
    /\ fn_out' = Append(fn_out, normalize_key(IF fn_out = <<>> THEN fn_in
                                              ELSE fn_out[1]))
    /\ UNCHANGED <<db, pc, local, nreq, response, fn_in>>

SpecNormalizeKey == InitNormalizeKey /\ [][ApplyNormalizeKey]_vars

-----------------------------------------------------------------------------
\* Properties of the version indexes and of deletion.

\* C1: in every reachable state the version_index values of every requirement
\* are exactly 1..k, k the number of its versions.
C1_VersionIndexesGapless ==
    \A r \in db.requirement :
        VersionIndexes(db, r.id) = 1..Cardinality(versions(db, r.id))

\* C2: whatever the interleaving of two appends to one requirement, no
\* committed state has two versions of a requirement with one version_index.
C2_NoDuplicateVersionIndex ==
    \A v, w \in db.requirement_version :
        (v.requirement_id = w.requirement_id /\ v.version_index = w.version_index)
            => v.id = w.id

\* Two appends have read the same last index of one requirement and the first
\* has committed: the index the other is about to insert is taken.
C2_SecondAppendReadStale ==
    \E p \in Procs :
        \/ /\ pc[p] \in {"generate_commit", "import_excel_commit"}
           /\ local[p].res.req_id # 0
           /\ local[p].res.version_index
                  \in VersionIndexes(db, local[p].res.req_id)
        \/ /\ pc[p] = "regenerate_requirement_commit"
           /\ local[p].latest_version.version_index + 1
                  \in VersionIndexes(db, local[p].req_id)

\* C3: in every reachable state a requirement that is not deleted has at least
\* one version.
C3_ActiveRequirementHasVersion ==
    \A r \in db.requirement : ~r.is_deleted => versions(db, r.id) # {}

\* The commit of a delete_requirement_version request of process p.
DeleteVersionCommits(p) ==
    pc[p] = "delete_requirement_version_commit" /\ pc'[p] = "idle"

\* C4: delete_requirement_version of version v of an active requirement: if v
\* is its only version the requirement becomes deleted and every version row is
\* kept; otherwise exactly the row of v is removed, every other version row is
\* as before and the requirement stays active.  No other requirement changes.
C4_DeleteVersionEffect ==
    [][\A p \in Procs :
         (/\ DeleteVersionCommits(p)
          /\ ~RequirementRow(db, local[p].req_id).is_deleted)
         => /\ IF Cardinality(versions(db, local[p].req_id)) = 1
               THEN /\ RequirementRow(db', local[p].req_id).is_deleted
                    /\ db'.requirement_version = db.requirement_version
               ELSE /\ db'.requirement_version =
                           db.requirement_version \ {VersionRow(db, local[p].version_id)}
                    /\ ~RequirementRow(db', local[p].req_id).is_deleted
            /\ \A r \in db.requirement : r.id # local[p].req_id => r \in db'.requirement
            /\ RequirementIds(db') = RequirementIds(db)]_vars

-----------------------------------------------------------------------------
\* Properties of blocking.

\* User u has access to the project of a blocked version and is neither its
\* blocker nor the owner of the project.
BlockedFor(u, version_id) ==
    /\ VersionRow(db, version_id).is_blocked
    /\ check_version_access(db, version_id, u)
    /\ u # VersionRow(db, version_id).blocked_by_id
    /\ u # ProjectRow(VersionProject(db, version_id)).user_id

\* A step that is an edit request of user u on the version.
EditRequest(u, version_id) ==
    \/ \E form \in Forms : update_requirement_version(u, version_id, form, "sent")
    \/ \E status \in Statuses : update_status(u, version_id, status)
    \/ \E column_name \in {"Priority", ""}, value \in {"", "Low"} :
           update_custom_data(u, version_id, column_name, value)
    \/ toggle_quantifiable(u, version_id)

Content(d, version_id) ==
    <<VersionRow(d, version_id).title, VersionRow(d, version_id).description,
      VersionRow(d, version_id).category, VersionRow(d, version_id).status,
      VersionRow(d, version_id).custom_data>>

\* C5: an edit request on a blocked version from a user with project access
\* who is neither the blocker nor the project owner leaves the version's title,
\* description, category, status and custom data unchanged.
C5_BlockedEditDenied ==
    [][\A u \in Users, version_id \in VersionIds(db) :
         (BlockedFor(u, version_id) /\ EditRequest(u, version_id))
         => Content(db', version_id) = Content(db, version_id)]_vars

-----------------------------------------------------------------------------
\* Properties of ingestion.

\* The commit of an ingestion run of process p.
IngestCommits(p) ==
    pc[p] \in {"generate_commit", "import_excel_commit"} /\ pc'[p] = "idle"

\* The version row the k-th item of a committing run has inserted.
NewVersion(k) == VersionRow(db', NextId(db.requirement_version) + k - 1)

\* The requirements item k can find: those of before the run and those the
\* earlier items of the run have created.
Visible(k) ==
    {r \in db'.requirement :
        \/ r.id \in RequirementIds(db)
        \/ \E j \in 1..(k - 1) : NewVersion(j).requirement_id = r.id}

TargetByPrecedence(project_id, item, k) ==
    LET by_id == {r \in Visible(k) : /\ item.id # 0
                                     /\ r.id = item.id
                                     /\ r.project_id = project_id}
        by_key == {r \in Visible(k) : /\ r.project_id = project_id
                                      /\ r.key = normalize_key(item.title)}
    IN /\ by_id # {} => NewVersion(k).requirement_id = item.id
       /\ (by_id = {} /\ by_key # {})
              => NewVersion(k).requirement_id \in {r.id : r \in by_key}
       /\ (by_id = {} /\ by_key = {})
              => /\ NewVersion(k).requirement_id \notin {r.id : r \in Visible(k)}
                 /\ RequirementRow(db', NewVersion(k).requirement_id).key
                        = normalize_key(item.title)
       /\ RequirementRow(db', NewVersion(k).requirement_id).project_id = project_id

\* C6: a generation run that commits appends one version per candidate, and
\* the requirement of each is: the one of the candidate's id if that is a
\* requirement of the project (whatever the title's key matches); else one of
\* the project with key = normalize_key(title); else a new requirement with
\* that key.  The requirement is always one of the project of the run.
C6_GenerateTargetPrecedence ==
    [][\A p \in Procs :
         (pc[p] = "generate_commit" /\ pc'[p] = "idle" /\ db' # db)
         => /\ VersionIds(db') \ VersionIds(db) =
                   {NextId(db.requirement_version) + k - 1 :
                       k \in 1..Len(local[p].items)}
            /\ \A k \in 1..Len(local[p].items) :
                   TargetByPrecedence(local[p].project_id, local[p].items[k], k)]_vars

\* A candidate with id 2 and title "B" has become a version of requirement 2
\* although another requirement of project 1 has the key "b".
C6_IdBeatsKey ==
    /\ \E v \in versions(db, 2) : v.title = B_ /\ v.status = "Fertig"
    /\ \E r \in db.requirement : r.id # 2 /\ r.project_id = 1 /\ r.key = <<"b">>

\* C7: with ingestion runs one at a time, a candidate whose title normalizes
\* to the key of an existing requirement of the project creates no requirement
\* of that key and adds exactly one version, with the candidate's title,
\* description and category, to that requirement.
C7_ExistingKeyAppends ==
    [][\A p \in Procs :
         IngestCommits(p) =>
           \A i \in 1..Len(local[p].items) :
             LET item == local[p].items[i]
                 key == normalize_key(item.title)
                 r == FirstByKey(db, local[p].project_id, key)
                 same == {j \in 1..Len(local[p].items) :
                             normalize_key(local[p].items[j].title) = key}
             IN r # 0 =>
                  /\ {x \in db'.requirement :
                         x.project_id = local[p].project_id /\ x.key = key}
                     = {x \in db.requirement :
                         x.project_id = local[p].project_id /\ x.key = key}
                  /\ Cardinality(versions(db', r))
                         = Cardinality(versions(db, r)) + Cardinality(same)
                  /\ \E v \in versions(db', r) \ versions(db, r) :
                         /\ v.title = strip(item.title)
                         /\ v.description = item.description
                         /\ v.category = item.category]_vars

\* C8: nothing but the lookup before the insert keeps (project, key) unique: a
\* run whose lookup found no requirement creates one when it commits, also
\* when a requirement with that project and key has been committed meanwhile.
C8_LookupMissCreates ==
    [][\A p \in Procs :
         (IngestCommits(p) /\ local[p].res.req_id = 0 /\ db' # db)
         => \E r \in db'.requirement :
                /\ r.id \notin RequirementIds(db)
                /\ r.project_id = local[p].project_id
                /\ r.key = local[p].res.key]_vars

\* Two requirements of one project have the same key.
C8_DuplicateKey ==
    \E r, x \in db.requirement :
        r.id # x.id /\ r.project_id = x.project_id /\ r.key = x.key

\* C9: in every reachable state the key of a requirement is normalize_key of
\* the title of its latest version.
C9_KeyOfLatestTitle ==
    \A r \in db.requirement :
        versions(db, r.id) # {}
            => r.key = normalize_key(VersionRow(db, get_latest_version(db, r.id)).title)

-----------------------------------------------------------------------------
\* Properties of can_be_edited_by.

\* C10: can_be_edited_by is true for every user on an unblocked version; on a
\* blocked one it is true for the blocker and for the project owner and false
\* for every other user.
C10_CanBeEditedBy ==
    fn_out # <<>> =>
        /\ ~fn_in.is_blocked => fn_out[1] = TRUE
        /\ (fn_in.is_blocked /\ fn_in.user = fn_in.blocked_by_id) => fn_out[1] = TRUE
        /\ (fn_in.is_blocked /\ fn_in.user = fn_in.owner_id) => fn_out[1] = TRUE
        /\ (fn_in.is_blocked /\ fn_in.user # fn_in.blocked_by_id
                             /\ fn_in.user # fn_in.owner_id) => fn_out[1] = FALSE

\* The owner, who is not the blocker, has asked about a blocked version.
C10_OwnerOfBlocked ==
    /\ fn_in.is_blocked
    /\ fn_in.user = fn_in.owner_id
    /\ fn_in.user # fn_in.blocked_by_id
    /\ fn_out = <<TRUE>>

-----------------------------------------------------------------------------
\* Properties of the block toggle.

Blocking(d, version_id) ==
    <<VersionRow(d, version_id).is_blocked, VersionRow(d, version_id).blocked_by_id,
      VersionRow(d, version_id).blocked_at>>

\* C11: a block request on an unblocked version by a user with access to its
\* project, the owner or a user the project is shared with, leaves the version
\* blocked with that user as blocked_by.
C11_AnyProjectUserBlocks ==
    [][\A u \in Users, version_id \in VersionIds(db) :
         (/\ ~VersionRow(db, version_id).is_blocked
          /\ check_version_access(db, version_id, u)
          /\ toggle_block_requirement(u, version_id))
         => /\ VersionRow(db', version_id).is_blocked
            /\ VersionRow(db', version_id).blocked_by_id = u]_vars

\* C12: a blocked version becomes unblocked only by a toggle request of its
\* blocker or of the owner of its project; the toggle request of any other user
\* leaves its blocking fields as they are.  Hence no update, status change,
\* comment, ingestion or sharing change unblocks it, and nothing unblocks it
\* without a request.
C12_UnblockOnlyByBlockerOrOwner ==
    [][\A version_id \in VersionIds(db) :
         VersionRow(db, version_id).is_blocked
         => /\ (/\ version_id \in VersionIds(db')
                /\ ~VersionRow(db', version_id).is_blocked)
               => \E u \in {VersionRow(db, version_id).blocked_by_id,
                             ProjectRow(VersionProject(db, version_id)).user_id} :
                      toggle_block_requirement(u, version_id)
            /\ \A u \in Users :
                  (/\ u # VersionRow(db, version_id).blocked_by_id
                   /\ u # ProjectRow(VersionProject(db, version_id)).user_id
                   /\ toggle_block_requirement(u, version_id))
                  => Blocking(db', version_id) = Blocking(db, version_id)]_vars

\* A blocked version carries a comment, written while a version was blocked.
C12_CommentOnBlocked ==
    \E v \in db.requirement_version :
        /\ v.is_blocked
        /\ \E c \in db.comment : c.version_id = v.id /\ c.id > 2

-----------------------------------------------------------------------------
\* Properties of the change history.

\* C13: every edit request that changes the title, the description, the
\* category, the status or the custom data of a version (by
\* update_requirement_version, update_status, update_custom_data or
\* toggle_quantifiable) adds, in the same commit, a history entry of that
\* version by the user of the request.
C13_EveryChangeHasHistory ==
    [][\A u \in Users, version_id \in VersionIds(db) :
         (/\ EditRequest(u, version_id)
          /\ Content(db', version_id) # Content(db, version_id))
         => \E h \in db'.history \ db.history :
                h.version_id = version_id /\ h.changed_by_id = u]_vars

\* The fields update_requirement_version tracks, and the stored value of each;
\* a custom column that is not stored reads as '', is_quantifiable as 'false'.
TrackedFields ==
    {"title", "description", "category", "status", "custom_Priority", "is_quantifiable"}

Stored(v, field) ==
    CASE field = "title" -> v.title
      [] field = "description" -> v.description
      [] field = "category" -> v.category
      [] field = "status" -> v.status
      [] field = "custom_Priority" -> Get(v.custom_data, "Priority", "")
      [] field = "is_quantifiable" -> Get(v.custom_data, "is_quantifiable", "false")

Differing(version_id) ==
    {field \in TrackedFields :
        Stored(VersionRow(db, version_id), field)
            # Stored(VersionRow(db', version_id), field)}

\* C14: a successful update_requirement_version adds at most one history
\* entry; if no tracked field of the version differs between the stored and the
\* applied value it adds none, otherwise it adds one 'modified' entry of that
\* version by the user, whose changes keys are exactly the differing fields.
C14_ModifiedEntryListsDifferences ==
    [][\A u \in Users, version_id \in VersionIds(db), form \in Forms :
         (/\ update_requirement_version(u, version_id, form, "sent")
          /\ response' = "ok")
         => /\ Cardinality(db'.history \ db.history) <= 1
            /\ db.history \subseteq db'.history
            /\ Differing(version_id) = {} => db'.history = db.history
            /\ Differing(version_id) # {}
               => \E h \in db'.history \ db.history :
                      /\ h.version_id = version_id
                      /\ h.change_type = "modified"
                      /\ h.changed_by_id = u
                      /\ h.changes = Differing(version_id)]_vars

\* A version last modified by user 2 whose only 'modified' entries are of
\* other users: the update of user 2 found no field to differ.
C14_UpdateWithoutDifference ==
    \E v \in db.requirement_version :
        /\ v.last_modified_by_id = 2
        /\ \E h \in db.history : h.version_id = v.id /\ h.change_type = "modified"
        /\ \A h \in db.history :
              (h.version_id = v.id /\ h.change_type = "modified") => h.changed_by_id # 2

-----------------------------------------------------------------------------
\* The frame of update_requirement_version.

-----------------------------------------------------------------------------
\* Properties of the trash.

\* C16: delete_requirement changes the is_deleted flag of the requirement and
\* nothing else; after it the requirement is in none of the normal listings
\* (project view, kanban, status poll, export) and it is in the trash view of
\* the user who deleted it; restore_requirement clears the flag, so that the
\* restore of a requirement deleted from the active state gives the rows from
\* before the delete.
C16_SoftDeleteToTrash ==
    [][\A u \in Users, req_id \in RequirementIds(db) :
         /\ (delete_requirement(u, req_id) /\ response' = "ok")
            => /\ RequirementRow(db', req_id).is_deleted
               /\ db' = SoftDelete(db, req_id, TRUE)
               /\ req_id \notin manage_project(db', RequirementRow(db, req_id).project_id)
               /\ req_id \notin kanban_view(db', RequirementRow(db, req_id).project_id)
               /\ req_id \notin requirements_status_json(
                                    db', RequirementRow(db, req_id).project_id)
               /\ req_id \notin export_excel(db', RequirementRow(db, req_id).project_id)
               /\ req_id \in deleted_requirements_overview(db', u)
               /\ ~RequirementRow(db, req_id).is_deleted
                  => SoftDelete(db', req_id, FALSE) = db
         /\ (restore_requirement(u, req_id) /\ response' = "ok")
            => /\ ~RequirementRow(db', req_id).is_deleted
               /\ db' = SoftDelete(db, req_id, FALSE)]_vars

\* C17: delete_requirement_permanently of any requirement, one whose versions
\* carry comments included, removes the requirement row, and no version,
\* history entry or comment that belonged to it is left.
C17_PermanentDeleteCascades ==
    [][\A u \in Users, req_id \in RequirementIds(db) :
         (delete_requirement_permanently(u, req_id) /\ response' # "forbidden")
         => /\ req_id \notin RequirementIds(db')
            /\ versions(db', req_id) = {}
            /\ \A v \in versions(db, req_id) :
                  /\ \A h \in db'.history : h.version_id # v.id
                  /\ \A c \in db'.comment : c.version_id # v.id]_vars

-----------------------------------------------------------------------------
\* Properties of comments.

\* C18: a create_comment request whose parent id is the id of no comment, of a
\* comment on another version or of a soft-deleted comment adds no comment and
\* no notification; and in every reachable state the parent of each reply is a
\* comment on the version of the reply.
C18_ReplyParentOnSameVersion ==
    /\ [](\A c \in db.comment :
            c.parent_comment_id # 0
            => \E q \in db.comment :
                   q.id = c.parent_comment_id /\ q.version_id = c.version_id)
    /\ [][\A u \in Users, version_id \in VersionIds(db), text \in Texts,
            parent_comment_id \in 1..NextId(db.comment) :
            (/\ create_comment(u, version_id, text, parent_comment_id, "sent")
             /\ \A q \in db.comment :
                   q.id = parent_comment_id
                   => q.version_id # version_id \/ q.is_deleted)
            => /\ db'.comment = db.comment
               /\ db'.notification = db.notification]_vars

\* A reply written by a request, to a comment that is soft-deleted by now.
C18_ReplyToDeletedLater ==
    \E c, q \in db.comment :
        /\ c.id > 2 /\ c.parent_comment_id = q.id /\ c.version_id = q.version_id
        /\ q.is_deleted

\* C19: in every reachable state get_comments does not return a soft-deleted
\* comment, and it returns every reply to a soft-deleted comment that is not
\* soft-deleted itself.
C19_RepliesOutliveParent ==
    \A c \in db.comment :
        c.is_deleted
        => /\ c.id \notin get_comments(db, c.version_id)
           /\ \A r \in db.comment :
                 (r.parent_comment_id = c.id /\ ~r.is_deleted)
                 => r.id \in get_comments(db, r.version_id)

-----------------------------------------------------------------------------
\* Properties of notifications.

\* C20: an update_requirement_version of user a on a version of project P adds
\* exactly one notification for each user among the owner of P and the users P
\* is shared with, a excepted, and none for anybody else.
C20_UpdateRecipients ==
    [][\A a \in Users, version_id \in VersionIds(db), form \in Forms :
         (/\ update_requirement_version(a, version_id, form, "sent")
          /\ response' = "ok")
         => LET P == VersionProject(db, version_id)
                sent == db'.notification \ db.notification
                recipients == ({ProjectRow(P).user_id} \cup db.shared_with[P]) \ {a}
            IN /\ {n.user_id : n \in sent} = recipients
               /\ \A u \in recipients :
                     Cardinality({n \in sent : n.user_id = u}) = 1]_vars

\* The notifications a step has added.
Sent == db'.notification \ db.notification

\* C21: a create_comment that adds a comment adds, for every user other than
\* the author, at most one notification: exactly one 'mention' and no 'comment'
\* notification for a user a mention of the text resolves to, and exactly one
\* 'comment' notification for every other user among the owner of the project
\* and the users it is shared with.
C21_OneNotificationPerUser ==
    [][\A a \in Users, version_id \in VersionIds(db), text \in Texts,
         parent_comment_id \in 0..NextId(db.comment) :
         (/\ create_comment(a, version_id, text, parent_comment_id, "sent")
          /\ db'.comment # db.comment)
         => LET P == VersionProject(db, version_id)
                mentioned == {find_user_by_mention(db, m, P) : m \in parse_mentions(text)}
                                 \ {0}
                members == {ProjectRow(P).user_id} \cup db.shared_with[P]
            IN \A u \in Users \ {a} :
                   /\ Cardinality({n \in Sent : n.user_id = u}) <= 1
                   /\ u \in mentioned
                      => {n.notification_type : n \in {x \in Sent : x.user_id = u}}
                             = {"mention"}
                   /\ (u \in members \ mentioned)
                      => {n.notification_type : n \in {x \in Sent : x.user_id = u}}
                             = {"comment"}]_vars

\* C22: every step that adds a version row (a commit of generate, import_excel
\* or regenerate_requirement), every update_requirement_version and every
\* create_comment that adds a comment comes with a notification for each user
\* among the owner of the project and the users it is shared with, the acting
\* user excepted.
C22_EveryMutationNotifies ==
    [][/\ \A v \in db'.requirement_version :
            (/\ v.id \notin VersionIds(db)
             /\ v.requirement_id \in RequirementIds(db')
             /\ ~NotifyFails)
            => LET P == RequirementRow(db', v.requirement_id).project_id
               IN \A u \in ({ProjectRow(P).user_id} \cup db.shared_with[P])
                              \ {v.created_by_id} :
                      \E n \in Sent : n.user_id = u
       /\ \A a \in Users, version_id \in VersionIds(db), form \in Forms :
            (/\ update_requirement_version(a, version_id, form, "sent")
             /\ response' = "ok")
            => LET P == VersionProject(db, version_id)
               IN \A u \in ({ProjectRow(P).user_id} \cup db.shared_with[P]) \ {a} :
                      \E n \in Sent : n.user_id = u
       /\ \A c \in db'.comment \ db.comment :
            (c.id \notin CommentIds(db) /\ ~NotifyFails)
            => LET P == VersionProject(db, c.version_id)
               IN \A u \in ({ProjectRow(P).user_id} \cup db.shared_with[P])
                              \ {c.author_id} :
                      \E n \in Sent : n.user_id = u]_vars

\* C23: when the notification helper of update_requirement_version,
\* create_comment or generate fails after the primary commit, in either way,
\* the rows of the primary commit are stored, no notification of a failed
\* helper is, and the request answers as a success.
C23_NotifyFailureKeepsSuccess ==
    [][/\ \A u \in Users, version_id \in VersionIds(db), form \in Forms,
            outcome \in NotifyOutcomes \ {"sent"} :
            update_requirement_version(u, version_id, form, outcome)
            => /\ VersionRow(db', version_id)
                      = UpdatedVersion(VersionRow(db, version_id), form, u)
               /\ Sent = {}
               /\ response' = "ok"
       /\ \A u \in Users, version_id \in VersionIds(db), text \in Texts,
            parent_comment_id \in 0..NextId(db.comment),
            outcome \in NotifyOutcomes \ {"sent"} :
            create_comment(u, version_id, text, parent_comment_id, outcome)
            => /\ db'.comment = db.comment \cup
                      {RequirementComment(db, version_id, u, text, parent_comment_id)}
               /\ Sent = {}
               /\ response' = "ok"
       /\ \A p \in Procs, outcome \in NotifyOutcomes \ {"sent"} :
            generate_commit(p, outcome)
            => /\ db'.requirement_version
                      = GenerateRun(db, local[p]).d.requirement_version
               /\ db'.requirement = GenerateRun(db, local[p]).d.requirement
               /\ response' = "ok"]_vars

-----------------------------------------------------------------------------
\* Properties of sharing.

\* C24: in every state reached through share_project and unshare_project, by
\* whichever users with access, the owner of a project is not among the users
\* the project is shared with.
C24_OwnerNotShared ==
    \A project_id \in ProjectIds :
        ProjectRow(project_id).user_id \notin db.shared_with[project_id]

-----------------------------------------------------------------------------
\* Properties of refused requests.

\* C25: a request that is refused, for lack of access (403) or for an invalid
\* input (a 400 or the flash of a validation message), leaves every stored row
\* as it was.
C25_RefusedChangesNothing ==
    [][response' \in {"forbidden", "invalid"} => db' = db]_vars

-----------------------------------------------------------------------------
\* Properties of the status of a version.

\* C26: the status of every stored version is one of 'Offen', 'In Arbeit' and
\* 'Fertig', and every version that a commit of generate adds, being made from
\* a requirement the AI client returned, has the status 'Offen'.
C26_StatusInEnumAndAiOffen ==
    /\ [](\A v \in db.requirement_version : v.status \in Statuses)
    /\ [][\A p \in Procs, outcome \in NotifyOutcomes :
            generate_commit(p, outcome)
            => \A v \in db'.requirement_version :
                   v.id \notin VersionIds(db) => v.status = "Offen"]_vars

-----------------------------------------------------------------------------
\* Properties of normalize_key.

\* The maximal runs of characters that are not whitespace, in order.
RECURSIVE Words(_)
Words(s) ==
    LET t == lstrip(s)
        ends == {i \in 1..Len(t) : t[i] \in WhiteSpace}
        n == IF ends = {} THEN Len(t) + 1 ELSE SetMin(ends)
    IN IF t = <<>> THEN <<>>
       ELSE <<SubSeq(t, 1, n - 1)>> \o Words(SubSeq(t, n, Len(t)))

\* The words with one space between neighbours.
RECURSIVE JoinWords(_)
JoinWords(ws) ==
    IF ws = <<>> THEN <<>>
    ELSE IF Len(ws) = 1 THEN ws[1]
    ELSE ws[1] \o <<" ">> \o JoinWords(Tail(ws))

\* C27: normalize_key of a title is the title in lower case, without
\* whitespace at its ends and with every run of whitespace inside it turned
\* into one space: the lower-cased words of the title with single spaces
\* between them, which is empty for the empty title; normalize_key of that
\* result is the result; and '  Login   Feature ' and 'login feature' both
\* give 'login feature'.
C27_NormalizeKey ==
    /\ fn_out # <<>> =>
         LET k == fn_out[1]
         IN /\ fn_in = <<>> => k = <<>>
            /\ k = JoinWords(Words(LowerName(fn_in)))
            /\ k # <<>> => k[1] \notin WhiteSpace /\ k[Len(k)] \notin WhiteSpace
            /\ \A i \in 1..Len(k) :
                  /\ k[i] \in WhiteSpace => k[i] = " "
                  /\ (i < Len(k) /\ k[i] = " ") => k[i + 1] # " "
                  /\ lower(k[i]) = k[i]
            /\ Len(fn_out) = 2 => fn_out[2] = k
    /\ normalize_key(<<" ", " ", "Login", " ", " ", " ", "Feature", " ">>)
           = <<"login", " ", "feature">>
    /\ normalize_key(<<"login", " ", "feature">>) = <<"login", " ", "feature">>

\* A title with upper case and a run of two kinds of whitespace inside,
\* normalised twice.
C27_RunCollapsedTwice ==
    /\ fn_in = <<"A", " ", "\t", "b">>
    /\ fn_out = << <<"a", " ", "b">>, <<"a", " ", "b">> >>

-----------------------------------------------------------------------------
\* Properties of the blocking fields.

-----------------------------------------------------------------------------
\* Properties of one ingestion run.

\* C29: when a run of generate or import_excel ends and two or more of its
\* items without an id have titles with the same key, the run commits and the
\* requirement of that key, whether it existed before the run or was created
\* by it, has gained one version per such item, with the version_index values
\* that follow its largest one before the run without a gap.
C29_SameRunConsecutiveIndexes ==
    [][\A p \in Procs :
         IngestCommits(p) =>
           \A i \in 1..Len(local[p].items) :
             LET items == local[p].items
                 key == normalize_key(items[i].title)
                 same == {j \in 1..Len(items) :
                             items[j].id = 0 /\ normalize_key(items[j].title) = key}
                 r == FirstByKey(db', local[p].project_id, key)
                 before == {v.version_index : v \in versions(db, r)}
                 base == IF before = {} THEN 0 ELSE SetMax(before)
             IN (key # <<>> /\ items[i].id = 0 /\ Cardinality(same) >= 2)
                => /\ response' = "ok"
                   /\ r # 0
                   /\ {v.version_index : v \in versions(db', r) \ versions(db, r)}
                          = (base + 1)..(base + Cardinality(same))]_vars

\* C30: when a run of generate or import_excel with no other request running
\* commits, an item whose id names a soft-deleted requirement of the project,
\* or which has no such id and whose key is the key of a soft-deleted
\* requirement that the lookup by key returns, has become a new version of
\* that requirement; the requirement is still soft-deleted, and the run has
\* created no requirement with the key of the item.
C30_SoftDeletedStillResolved ==
    [][\A p \in Procs :
         (IngestCommits(p) /\ response' = "ok") =>
           \A i \in 1..Len(local[p].items) :
             LET item == local[p].items[i]
                 project_id == local[p].project_id
                 key == normalize_key(item.title)
                 by_id == IF /\ item.id # 0
                             /\ item.id \in RequirementIds(db)
                             /\ RequirementRow(db, item.id).project_id = project_id
                          THEN item.id ELSE 0
                 hits == {x.id : x \in {y \in db.requirement :
                                          y.project_id = project_id /\ y.key = key}}
                 r == IF by_id # 0 THEN by_id
                      ELSE IF hits = {} THEN 0 ELSE SetMin(hits)
             IN (r # 0 /\ RequirementRow(db, r).is_deleted)
                => /\ RequirementRow(db', r).is_deleted
                   /\ \E v \in versions(db', r) \ versions(db, r) :
                          /\ v.title = strip(item.title)
                          /\ v.description = item.description
                   /\ \A x \in db'.requirement :
                          (x.project_id = project_id /\ x.key = key)
                          => x \in db.requirement]_vars

\* Requirement 2 is soft-deleted and has a third version, and no requirement
\* has been added.
C30_VersionOnDeletedRequirement ==
    /\ RequirementIds(db) = {1, 2}
    /\ RequirementRow(db, 2).is_deleted
    /\ Cardinality(versions(db, 2)) = 3
    /\ response = "ok"

====
